---- MODULE Spec2Model ----
(***************************************************************************)
(* House & Conduct Points Tracker (src/app.py).                            *)
(*                                                                         *)
(* The script is one top-to-bottom pass per upload: load the staff master, *)
(* read and normalise the rewards CSV, split it into house and conduct     *)
(* rows, aggregate per teacher, merge with the staff master, export, and   *)
(* update the cumulative tracker CSV.                                      *)
(*                                                                         *)
(* Representation.  A text (a cell of a CSV file, a string value of a      *)
(* frame) is a sequence of word tokens; the token " " is white space.  A   *)
(* missing value (NaN) of a string column that the code passes through     *)
(* fillna("") is the empty text.  A frame is a sequence of rows, a row a   *)
(* function from column names to values.                                   *)
(***************************************************************************)
EXTENDS Integers, Sequences, FiniteSets, TLC

VARIABLES
    pc,             \* where the script run ended: "start" before it ran
    staff_file,     \* the staff master CSV on disk / uploaded in the sidebar
    uploaded,       \* the rewards uploader's file
    weekly_target,  \* sidebar number input
    week_label,     \* sidebar text input
    cumulative,     \* the cumulative tracker CSV file at cumulative_path
    message,        \* what the page reports (st.error / exception / warning)
    staff_df,       \* the staff master after loading and de-duplication
    df_aligned,     \* read_rewards_csv: df once the headers are settled
    rewards,        \* the normalised weekly frame
    house_df,
    conduct_df,
    staff_agg,
    staff_full,
    to_append,      \* update_cumulative_tracker: the rows of this call
    cum_df,         \* update_cumulative_tracker: the returned cum frame
    staff_stats     \* update_cumulative_tracker: the returned statistics

vars == <<pc, staff_file, uploaded, weekly_target, week_label, cumulative,
          message, staff_df, df_aligned, rewards, house_df, conduct_df,
          staff_agg, staff_full, to_append, cum_df, staff_stats>>

---------------------------------------------------------------------------
(* Bounds of the model.                                                    *)

MaxRows == 2        \* rows of an uploaded rewards file
MaxStaff == 2       \* rows of a weekly frame handed to the tracker
MaxLog == 3         \* rows the cumulative tracker file may reach
ParseRange == 30    \* integers the numeric parser recognises, by magnitude

---------------------------------------------------------------------------
(* Configuration (src/app.py 16-30).                                       *)

DEFAULT_WEEKLY_TARGET == 15

EXPECTED_REWARDS_COLS ==
    <<"Pupil Name", "House", "Form", "Year", "Reward", "Category", "Points",
      "Date", "Reward Description", "Teacher", "Dep", "Subject">>

HOUSE_MAPPING ==
    [c \in {"B", "L", "D", "W"} |->
        CASE c = "B" -> <<"Brunel">>
          [] c = "L" -> <<"Liddell">>
          [] c = "D" -> <<"Dickens">>
          [] c = "W" -> <<"Wilberforce">>]

---------------------------------------------------------------------------
(* Strings.                                                                *)

Range(s) == {s[i] : i \in DOMAIN s}

\* str.upper() on one token
upper_token(tok) ==
    CASE tok = "ab" -> "AB"
      [] tok = "cd" -> "CD"
      [] tok = "zz" -> "ZZ"
      [] tok = "na" -> "NA"
      [] tok = "b" -> "B"
      [] tok = "d" -> "D"
      [] tok = "w" -> "W"
      [] tok = "x" -> "X"
      [] tok = "7l" -> "7L"
      [] tok = "Brunel" -> "BRUNEL"
      [] tok = "Drake" -> "DRAKE"
      [] tok = "Red" -> "RED"
      [] tok = "good" -> "GOOD"
      [] tok = "a@b" -> "A@B"
      [] tok = "Ann" -> "ANN"
      [] tok = "Lee" -> "LEE"
      [] tok = "Maths" -> "MATHS"
      [] OTHER -> tok

\* str.lower() on one token
lower_token(tok) ==
    CASE tok = "House" -> "house"
      [] tok = "HOUSE" -> "house"
      [] tok = "Point" -> "point"
      [] tok = "Conduct" -> "conduct"
      [] tok = "Reward" -> "reward"
      [] tok = "Behaviour" -> "behaviour"
      [] tok = "Effort" -> "effort"
      [] tok = "Merit" -> "merit"
      [] OTHER -> tok

str_upper(text) == [k \in DOMAIN text |-> upper_token(text[k])]
str_lower(text) == [k \in DOMAIN text |-> lower_token(text[k])]

\* str.strip(): leading and trailing white space removed
RECURSIVE lstrip(_)
lstrip(text) ==
    IF text # <<>> /\ Head(text) = " " THEN lstrip(Tail(text)) ELSE text

RECURSIVE rstrip(_)
rstrip(text) ==
    IF text # <<>> /\ text[Len(text)] = " "
    THEN rstrip(SubSeq(text, 1, Len(text) - 1))
    ELSE text

str_strip(text) == rstrip(lstrip(text))

\* the lower-case words that occur inside a lower-case token as substrings
substrings_of(tok) ==
    CASE tok = "house" -> {"house"}
      [] tok = "housepoint" -> {"house", "point"}
      [] tok = "point" -> {"point"}
      [] tok = "reward" -> {"reward"}
      [] tok = "conduct" -> {"conduct"}
      [] tok = "behaviour" -> {"behaviour"}
      [] tok = "behavior" -> {"behavior"}
      [] OTHER -> {tok}

\* Series.str.contains(word, case=False, na=False)
str_contains(text, word) ==
    \E k \in DOMAIN text : word \in substrings_of(lower_token(text[k]))

Digit == <<"0", "1", "2", "3", "4", "5", "6", "7", "8", "9">>

RECURSIVE format_nat(_)
format_nat(n) ==
    IF n < 10 THEN Digit[n + 1]
    ELSE format_nat(n \div 10) \o Digit[(n % 10) + 1]

\* str(n) of an integer, as to_csv writes it
format_int(n) == IF n < 0 THEN "-" \o format_nat(-n) ELSE format_nat(n)

\* the spellings of n the numeric parser accepts: "7", "07", "007"
spellings(n) ==
    IF n < 0
    THEN {"-" \o format_nat(-n)}
    ELSE {format_nat(n), "0" \o format_nat(n), "00" \o format_nat(n)}

\* every spelling the parser accepts, with its value
NUMERALS ==
    UNION {{<<sp, n>> : sp \in spellings(n)} : n \in -ParseRange..ParseRange}

NUMERAL_VALUE ==
    [sp \in {p[1] : p \in NUMERALS} |->
        (CHOOSE p \in NUMERALS : p[1] = sp)[2]]

is_numeric(text) == Len(text) = 1 /\ text[1] \in DOMAIN NUMERAL_VALUE

numeric_value(text) == NUMERAL_VALUE[text[1]]

\* pandas' default NA spellings (read_csv, keep_default_na=True)
NA_VALUES ==
    {"NA", "N/A", "n/a", "NULL", "null", "NaN", "nan", "None", "#N/A", "<NA>"}

is_na(text) == text = <<>> \/ (Len(text) = 1 /\ text[1] \in NA_VALUES)

---------------------------------------------------------------------------
(* read_staff_file (src/app.py 35-85) and the staff master of the run      *)
(* (src/app.py 215-228).  A staff file is                                  *)
(*   [exists, readable, header, rows]; a row is a sequence of cells in     *)
(* file order.  The files considered have the four documented columns.     *)

STAFF_COLUMNS == <<"Initials", "FirstName", "Surname", "FullName", "Dep">>

first_index(seq, x) ==
    CHOOSE j \in DOMAIN seq : seq[j] = x /\ \A k \in 1..(j - 1) : seq[k] # x

\* choose_col: the first known name the file has, else the positional column
RECURSIVE choose_col(_, _, _)
choose_col(cols, name_options, fallback) ==
    IF name_options = <<>> THEN fallback
    ELSE IF Head(name_options) \in Range(cols) THEN Head(name_options)
    ELSE choose_col(cols, Tail(name_options), fallback)

RECURSIVE dropna_initials(_)
dropna_initials(rows) ==
    IF rows = <<>> THEN <<>>
    ELSE IF Head(rows)["Initials"] = <<>> THEN dropna_initials(Tail(rows))
    ELSE <<Head(rows)>> \o dropna_initials(Tail(rows))

read_staff_file(file) ==
    IF ~file.readable THEN <<>>
    ELSE
      LET cols == file.header
          first_name_col ==
              choose_col(cols, <<"First Name", "FirstName", "Firstname">>, cols[1])
          surname_col ==
              choose_col(cols, <<"Surname", "Last Name", "LastName", "Last">>, cols[2])
          initials_col ==
              choose_col(cols, <<"Initials", "Initial", "Initials.">>, cols[3])
          dept_col ==
              choose_col(cols, <<"Dep", "Department", "Dept", "Dept.">>, cols[4])
          cell(r, col) ==
              LET raw == r[first_index(cols, col)]
              IN  IF is_na(raw) THEN <<>> ELSE str_strip(raw)
          norm(r) ==
              [c \in Range(STAFF_COLUMNS) |->
                  CASE c = "FirstName" -> cell(r, first_name_col)
                    [] c = "Surname" -> cell(r, surname_col)
                    [] c = "Initials" ->
                          str_strip(str_upper(str_strip(cell(r, initials_col))))
                    [] c = "Dep" -> cell(r, dept_col)
                    [] c = "FullName" ->
                          str_strip(cell(r, first_name_col) \o <<" ">>
                                    \o cell(r, surname_col))]
      IN  dropna_initials([i \in DOMAIN file.rows |-> norm(file.rows[i])])

\* DataFrame.drop_duplicates(subset=["Initials"]): the first row of each key
RECURSIVE drop_duplicates(_, _)
drop_duplicates(rows, seen) ==
    IF rows = <<>> THEN <<>>
    ELSE IF Head(rows)["Initials"] \in seen
         THEN drop_duplicates(Tail(rows), seen)
         ELSE <<Head(rows)>>
              \o drop_duplicates(Tail(rows), seen \cup {Head(rows)["Initials"]})

\* src/app.py 215-228
load_staff_master(file) ==
    LET loaded == IF file.exists THEN read_staff_file(file) ELSE <<>>
    IN  IF loaded = <<>> THEN <<>>
        ELSE drop_duplicates(
                 [i \in DOMAIN loaded |->
                     [loaded[i] EXCEPT
                         !["Initials"] = str_strip(str_upper(@))]],
                 {})

---------------------------------------------------------------------------
(* read_rewards_csv (src/app.py 87-134).  An upload is                     *)
(*   [readable, header, rows]: the header names in file order and the      *)
(* rows as sequences of cells in file order.                               *)

ExpectedSet == Range(EXPECTED_REWARDS_COLS)

\* Index.str.strip() on a header name
strip_name(name) ==
    CASE name = " Teacher" -> "Teacher"
      [] name = "Points " -> "Points"
      [] OTHER -> name

\* src/app.py 101: the headers already hold every expected name
headers_match(cols) == ExpectedSet \subseteq Range(cols)

\* names assigned by position only on an exact count
positional_fallback_exact(cols) == Len(cols) = Len(EXPECTED_REWARDS_COLS)

\* src/app.py 106: names are assigned by position
positional_fallback(cols) == Len(cols) >= Len(EXPECTED_REWARDS_COLS)

\* For each expected name, the incoming column that supplies it (0: the
\* column is created empty).  src/app.py 100-114.
column_source(cols) ==
    IF headers_match(cols)
    THEN [c \in ExpectedSet |-> first_index(cols, c)]
    ELSE IF positional_fallback(cols)
    THEN [c \in ExpectedSet |-> first_index(EXPECTED_REWARDS_COLS, c)]
    ELSE [c \in ExpectedSet |->
              IF c \in Range(cols) THEN first_index(cols, c) ELSE 0]

\* pd.read_csv(dtype=str) followed by the header strategy: df at line 115
align_columns(upload) ==
    LET cols == [j \in DOMAIN upload.header |-> strip_name(upload.header[j])]
        src == column_source(cols)
        cell(r, c) ==
            IF src[c] = 0 \/ is_na(r[src[c]]) THEN <<>> ELSE r[src[c]]
    IN  [i \in DOMAIN upload.rows |->
            [c \in ExpectedSet |-> cell(upload.rows[i], c)]]

\* pd.to_numeric(errors="coerce").fillna(0).astype(int)
to_int(text) == IF is_numeric(text) THEN numeric_value(text) ELSE 0

\* the first letter of an upper-case token, "" when it has none
first_letter_token(tok) ==
    CASE tok \in {"B", "BRUNEL", "BLUE"} -> "B"
      [] tok \in {"L", "LEE", "7L"} -> "L"
      [] tok \in {"D", "DRAKE"} -> "D"
      [] tok \in {"W"} -> "W"
      [] tok \in {"ANN", "7A", "A@B"} -> "A"
      [] tok \in {"RED"} -> "R"
      [] tok \in {"NA"} -> "N"
      [] tok \in {"GOOD"} -> "G"
      [] tok \in {"X"} -> "X"
      [] OTHER -> ""

\* Series.str.extract(r'([A-Za-z])').fillna("")
RECURSIVE extract_letter(_)
extract_letter(text) ==
    IF text = <<>> THEN <<>>
    ELSE IF first_letter_token(Head(text)) # ""
         THEN <<first_letter_token(Head(text))>>
         ELSE extract_letter(Tail(text))

NormalisedColumns == ExpectedSet \cup {"HouseRaw", "HouseCode", "index"}

\* src/app.py 116-133, one row; i is the row's index label
normalise_row(r, i) ==
    LET s == [c \in ExpectedSet |-> str_strip(r[c])]
        HouseRaw == str_strip(s["House"])
        code == extract_letter(str_upper(HouseRaw))
        HouseCode == IF code = <<>> THEN "" ELSE code[1]
    IN  [c \in NormalisedColumns |->
            CASE c = "index" -> i
              [] c = "Teacher" -> str_strip(str_upper(s[c]))
              [] c = "Dep" -> str_strip(s[c])
              [] c = "Reward" -> str_strip(str_lower(s[c]))
              [] c = "Category" -> str_strip(str_lower(s[c]))
              [] c = "Points" -> to_int(s[c])
              [] c = "HouseRaw" -> HouseRaw
              [] c = "HouseCode" -> code
              [] c = "House" ->
                    IF HouseCode \in DOMAIN HOUSE_MAPPING
                    THEN HOUSE_MAPPING[HouseCode]
                    ELSE HouseRaw
              [] c \in {"Form", "Year", "Pupil Name"} -> str_strip(s[c])
              [] OTHER -> s[c]]

\* the read error swallowed
read_never_fails(upload) == FALSE

\* src/app.py 92-95: pd.read_csv raised
read_fails(upload) == ~upload.readable

read_rewards_csv(upload) ==
    LET df == align_columns(upload)
    IN  [i \in DOMAIN df |-> normalise_row(df[i], i - 1)]

---------------------------------------------------------------------------
(* Ordering of string keys (groupby and merge sort their keys).            *)

\* the tokens that occur in keys, in code-point order
TOKEN_ORDER == <<" ", "01", "02", "AB", "CD", "GOOD", "NA", "W1", "W2", "ZZ">>

token_rank(tok) ==
    IF tok \in Range(TOKEN_ORDER) THEN first_index(TOKEN_ORDER, tok) ELSE 0

RECURSIVE text_less(_, _)
text_less(a, b) ==
    IF b = <<>> THEN FALSE
    ELSE IF a = <<>> THEN TRUE
    ELSE IF Head(a) = Head(b) THEN text_less(Tail(a), Tail(b))
    ELSE token_rank(Head(a)) < token_rank(Head(b))

RECURSIVE sorted_keys(_)
sorted_keys(S) ==
    IF S = {} THEN <<>>
    ELSE LET m == CHOOSE x \in S : \A y \in S \ {x} : ~text_less(y, x)
         IN  <<m>> \o sorted_keys(S \ {m})

RECURSIVE sum_column(_, _)
sum_column(rows, c) ==
    IF rows = <<>> THEN 0 ELSE Head(rows)[c] + sum_column(Tail(rows), c)

RECURSIVE select_rows(_, _)
select_rows(rows, mask) ==
    IF rows = <<>> THEN <<>>
    ELSE (IF mask[1] THEN <<Head(rows)>> ELSE <<>>)
         \o select_rows(Tail(rows),
                        [k \in 1..(Len(mask) - 1) |-> mask[k + 1]])

---------------------------------------------------------------------------
(* House / conduct split and the per-teacher aggregates                    *)
(* (src/app.py 253-285).                                                   *)

HP == "House Points This Week"
CP == "Conduct Points This Week"

\* the house mask widened to the word "reward"
is_house_or_reward_row(row) ==
    str_contains(row["Reward"], "house") \/ str_contains(row["Reward"], "reward")

\* src/app.py 254
is_house_row(row) == str_contains(row["Reward"], "house")

\* src/app.py 255
is_conduct_row(row) == str_contains(row["Reward"], "conduct")

\* the house subset with a fall-back to the sign of Points when no row
\* names either word
house_rows_or_positive(df) ==
    IF \A i \in DOMAIN df : ~is_house_row(df[i]) /\ ~is_conduct_row(df[i])
    THEN select_rows(df, [i \in DOMAIN df |-> df[i]["Points"] > 0])
    ELSE select_rows(df, [i \in DOMAIN df |-> is_house_row(df[i])])

house_rows(df) == select_rows(df, [i \in DOMAIN df |-> is_house_row(df[i])])

conduct_rows(df) == select_rows(df, [i \in DOMAIN df |-> is_conduct_row(df[i])])

with_teacher(df, t) ==
    select_rows(df, [i \in DOMAIN df |-> df[i]["Teacher"] = t])

teachers_of(df) == {df[i]["Teacher"] : i \in DOMAIN df}

\* src/app.py 261-264: groupby("Teacher")["Points"].sum()
staff_house_of(h) ==
    LET keys == sorted_keys(teachers_of(h))
    IN  [k \in DOMAIN keys |->
            [Teacher |-> keys[k],
             points |-> sum_column(with_teacher(h, keys[k]), "Points")]]

\* src/app.py 267-270: groupby("Teacher")["Points"].count()
staff_conduct_of(c) ==
    LET keys == sorted_keys(teachers_of(c))
    IN  [k \in DOMAIN keys |->
            [Teacher |-> keys[k],
             points |-> Len(with_teacher(c, keys[k]))]]

lookup(frame, t) ==
    IF \E k \in DOMAIN frame : frame[k].Teacher = t
    THEN (frame[CHOOSE k \in DOMAIN frame : frame[k].Teacher = t]).points
    ELSE 0

\* src/app.py 273-285: outer merge on Teacher, fillna(0), int, upper/strip
staff_agg_of(sh, sc) ==
    LET keys == sorted_keys({sh[k].Teacher : k \in DOMAIN sh}
                            \cup {sc[k].Teacher : k \in DOMAIN sc})
    IN  [k \in DOMAIN keys |->
            [c \in {"Teacher", HP, CP} |->
                CASE c = "Teacher" -> str_strip(str_upper(keys[k]))
                  [] c = HP -> lookup(sh, keys[k])
                  [] c = CP -> lookup(sc, keys[k])]]

---------------------------------------------------------------------------
(* Merge with the staff master (src/app.py 291-315).  A frame with named   *)
(* columns is [ok, columns, rows]; ok is FALSE when building it raised     *)
(* KeyError.                                                               *)

KeyError == [ok |-> FALSE, columns |-> <<>>, rows |-> <<>>]

\* DataFrame.rename(columns={old: new})
rename_column(cols, old, new) ==
    [j \in DOMAIN cols |-> IF cols[j] = old THEN new ELSE cols[j]]

\* Series.unique(): first occurrences, in order
RECURSIVE unique(_, _)
unique(seq, seen) ==
    IF seq = <<>> THEN <<>>
    ELSE IF Head(seq) \in seen THEN unique(Tail(seq), seen)
    ELSE <<Head(seq)>> \o unique(Tail(seq), seen \cup {Head(seq)})

\* df[[...]]: KeyError unless every name is a column
select_columns(cols, rows, wanted) ==
    IF Range(wanted) \subseteq Range(cols)
    THEN [ok |-> TRUE, columns |-> wanted,
          rows |-> [i \in DOMAIN rows |->
                       [c \in Range(wanted) |-> rows[i][c]]]]
    ELSE KeyError

\* src/app.py 291-300
master_of(all_staff, agg) ==
    IF all_staff = <<>>
    THEN LET ts == unique([k \in DOMAIN agg |-> agg[k]["Teacher"]], {})
         IN  [ok |-> TRUE,
              columns |-> <<"Initials", "FullName", "Dep">>,
              rows |-> [k \in DOMAIN ts |->
                           [c \in {"Initials", "FullName", "Dep"} |->
                               IF c = "Dep" THEN <<>> ELSE ts[k]]]]
    ELSE LET cols == rename_column(
                         rename_column(STAFF_COLUMNS, "Initials", "Teacher"),
                         "Dep", "Dept")
             rows == [i \in DOMAIN all_staff |->
                         [c \in Range(cols) |->
                             CASE c = "Teacher" -> all_staff[i]["Initials"]
                               [] c = "Dept" -> all_staff[i]["Dep"]
                               [] OTHER -> all_staff[i][c]]]
             picked == select_columns(cols, rows, <<"Teacher", "FullName", "Dep">>)
         IN  IF ~picked.ok THEN KeyError
             ELSE [ok |-> TRUE,
                   columns |-> rename_column(picked.columns, "Dep", "Dept"),
                   rows |-> [i \in DOMAIN picked.rows |->
                                [c \in {"Teacher", "FullName", "Dept"} |->
                                    IF c = "Dept" THEN picked.rows[i]["Dep"]
                                    ELSE picked.rows[i][c]]]]

agg_value(agg, t, c) ==
    IF \E k \in DOMAIN agg : agg[k]["Teacher"] = t
    THEN agg[CHOOSE k \in DOMAIN agg : agg[k]["Teacher"] = t][c]
    ELSE 0

\* src/app.py 315
on_target(points, target) == IF points >= target THEN "Yes" ELSE "No"

\* src/app.py 303-315: pd.merge(master, staff_agg, left_on="Teacher",
\* right_on="Teacher", how="left").fillna(0), then the On Target column
staff_full_of(master, agg, target) ==
    IF ~master.ok \/ "Teacher" \notin Range(master.columns)
    THEN KeyError
    ELSE [ok |-> TRUE,
          columns |-> master.columns \o <<HP, CP, "On Target">>,
          rows |-> [i \in DOMAIN master.rows |->
              [c \in Range(master.columns) \cup {HP, CP, "On Target"} |->
                  CASE c = HP -> agg_value(agg, master.rows[i]["Teacher"], HP)
                    [] c = CP -> agg_value(agg, master.rows[i]["Teacher"], CP)
                    [] c = "On Target" ->
                          on_target(agg_value(agg, master.rows[i]["Teacher"], HP),
                                    target)
                    [] OTHER -> master.rows[i][c]]]]

---------------------------------------------------------------------------
(* update_cumulative_tracker (src/app.py 165-198).                         *)
(*                                                                         *)
(* The tracker file is [exists, rows]; a row of the file maps each of the  *)
(* four columns to the text of its cell.  In memory a value of the object  *)
(* columns Teacher and Week is a string, an integer, a float or NaN, as    *)
(* pd.read_csv infers it per column; the point columns are integers.       *)

TRACKER_COLUMNS == <<"Teacher", HP, CP, "Week">>

Str(t) == [kind |-> "str", text |-> t, num |-> 0]
Int64(n) == [kind |-> "int", text |-> <<>>, num |-> n]
Float64(n) == [kind |-> "float", text |-> <<>>, num |-> n]
NaN == [kind |-> "nan", text |-> <<>>, num |-> 0]

NoFile == [exists |-> FALSE, rows |-> <<>>]

\* pd.read_csv(path), one column: every cell that is not NA is a number,
\* and the column is numeric; otherwise the cells stay strings
infer_column(cells) ==
    LET present == {k \in DOMAIN cells : ~is_na(cells[k])}
        numeric == present # {} /\ \A k \in present : is_numeric(cells[k])
        holes == present # DOMAIN cells
    IN  [k \in DOMAIN cells |->
            IF k \notin present THEN NaN
            ELSE IF ~numeric THEN Str(cells[k])
            ELSE IF holes THEN Float64(numeric_value(cells[k]))
            ELSE Int64(numeric_value(cells[k]))]

\* pd.to_numeric(errors="coerce").fillna(0) on a value read from the file
coerce_points(v) == IF v.kind \in {"int", "float"} THEN v.num ELSE 0

\* src/app.py 179-185
read_tracker(file) ==
    LET col(c) == infer_column([i \in DOMAIN file.rows |-> file.rows[i][c]])
    IN  [i \in DOMAIN file.rows |->
            [c \in Range(TRACKER_COLUMNS) |->
                IF c \in {HP, CP} THEN coerce_points(col(c)[i]) ELSE col(c)[i]]]

\* DataFrame.to_csv, one cell
to_csv_cell(v) ==
    CASE v.kind = "str" -> v.text
      [] v.kind = "int" -> <<format_int(v.num)>>
      [] v.kind = "float" -> <<format_int(v.num) \o ".0">>
      [] v.kind = "nan" -> <<>>

\* src/app.py 190
to_csv(cum) ==
    [exists |-> TRUE,
     rows |-> [i \in DOMAIN cum |->
                  [c \in Range(TRACKER_COLUMNS) |->
                      IF c \in {HP, CP} THEN <<format_int(cum[i][c])>>
                      ELSE to_csv_cell(cum[i][c])]]]

\* round(x, 2) of the mean total / n, in hundredths (ties to even)
round2(total, n) ==
    LET q == (100 * total) \div n
        r == (100 * total) % n
    IN  IF 2 * r < n THEN q
        ELSE IF 2 * r > n THEN q + 1
        ELSE IF q % 2 = 0 THEN q ELSE q + 1

\* src/app.py 197: the threshold the status is taken against, in points
status_threshold(target) == DEFAULT_WEEKLY_TARGET

\* src/app.py 194: the number the total is divided by
mean_divisor(rows) == Len(rows)

\* src/app.py 191-197.  AvgHousePerWeek is held in hundredths of a point.
staff_stats_of(cum, target) ==
    LET named == select_rows(cum, [i \in DOMAIN cum |-> cum[i]["Teacher"].kind = "str"])
        keys == sorted_keys({named[i]["Teacher"].text : i \in DOMAIN named})
        group(t) == select_rows(named, [i \in DOMAIN named |-> named[i]["Teacher"].text = t])
        weeks(g) == {g[i]["Week"] : i \in DOMAIN g} \ {NaN}
    IN  [k \in DOMAIN keys |->
            LET g == group(keys[k])
                avg == round2(sum_column(g, HP), mean_divisor(g))
            IN  [Teacher |-> keys[k],
                 TotalHousePoints |-> sum_column(g, HP),
                 WeeksReported |-> Cardinality(weeks(g)),
                 AvgHousePerWeek |-> avg,
                 ContributionStatus |->
                     IF avg >= 100 * status_threshold(target)
                     THEN "Positive" ELSE "Negative"]]

\* src/app.py 175: the four columns of the weekly frame
to_append_of(staff_weekly_df) ==
    [i \in DOMAIN staff_weekly_df |->
        [c \in Range(TRACKER_COLUMNS) |->
            IF c \in {HP, CP} THEN staff_weekly_df[i][c]
            ELSE Str(staff_weekly_df[i][c])]]

\* src/app.py 165-198: the file written, and the pair returned
update_cumulative_tracker(staff_weekly_df, file, target) ==
    LET app == to_append_of(staff_weekly_df)
        cum == IF file.exists THEN read_tracker(file) \o app ELSE app
    IN  [file |-> to_csv(cum),
         to_append |-> app,
         cum |-> cum,
         staff_stats |-> staff_stats_of(cum, target)]

\* src/app.py 392: staff_full[[...]].assign(Week=week_label)
weekly_frame(full_rows, label) ==
    [i \in DOMAIN full_rows |->
        [c \in Range(TRACKER_COLUMNS) |->
            IF c = "Week" THEN label ELSE full_rows[i][c]]]

---------------------------------------------------------------------------
(* The inputs of a run.                                                    *)

\* Exports of the rewards file: the header row, and for each column the
\* field whose data the exporter wrote there.
LAYOUTS ==
    { \* the documented headers, in the documented order
      [header |-> EXPECTED_REWARDS_COLS, fields |-> EXPECTED_REWARDS_COLS],
      \* every documented header and one more, in another order
      [header |-> <<"Email", " Teacher", "Points ", "Reward", "Pupil Name",
                    "House", "Form", "Year", "Category", "Date",
                    "Reward Description", "Dep", "Subject">>,
       fields |-> <<"Email", "Teacher", "Points", "Reward", "Pupil Name",
                    "House", "Form", "Year", "Category", "Date",
                    "Reward Description", "Dep", "Subject">>],
      \* other names for the documented columns, in the documented order
      [header |-> <<"Student", "Hse", "Frm", "Yr", "Type", "Cat", "Pts",
                    "When", "Notes", "Staff", "Department", "Subj">>,
       fields |-> EXPECTED_REWARDS_COLS],
      \* thirteen columns, "Dept" where "Dep" is expected
      [header |-> <<"Email", "Pupil Name", "House", "Form", "Year", "Reward",
                    "Category", "Points", "Date", "Reward Description",
                    "Teacher", "Dept", "Subject">>,
       fields |-> <<"Email", "Pupil Name", "House", "Form", "Year", "Reward",
                    "Category", "Points", "Date", "Reward Description",
                    "Teacher", "Dep", "Subject">>],
      \* three documented columns only
      [header |-> <<"Reward", "Points", "Teacher">>,
       fields |-> <<"Reward", "Points", "Teacher">>],
      \* three columns under other names
      [header |-> <<"Type", "Pts", "Staff">>,
       fields |-> <<"Reward", "Points", "Teacher">>] }

\* the Reward, Points and Teacher cells of a row of the export
payload(r, p, t) == [reward |-> r, points |-> p, teacher |-> t]

PAYLOADS ==
    { payload(<<"House", "Point">>, <<"5">>, <<"ab">>),
      payload(<<"reward">>, <<"5">>, <<"ab">>),
      payload(<<"Conduct">>, <<"-3">>, <<"zz", " ">>),
      payload(<<"house", "conduct">>, <<"5">>, <<"zz", " ">>),
      payload(<<"merit">>, <<"5">>, <<"ab">>),
      payload(<<"merit">>, <<"-3">>, <<"zz", " ">>) }

\* what the exporter writes in a column that is neither of the three above
field_sample(f) ==
    CASE f = "Pupil Name" -> <<"Ann", "Lee">>
      [] f = "House" -> <<"b">>
      [] f = "Form" -> <<"7A">>
      [] f = "Year" -> <<"7">>
      [] f = "Category" -> <<"Effort">>
      [] f = "Date" -> <<"2025-01-06">>
      [] f = "Reward Description" -> <<"good">>
      [] f = "Dep" -> <<"Maths">>
      [] f = "Subject" -> <<"Algebra">>
      [] OTHER -> <<"a@b">>

file_row(layout, p) ==
    [j \in DOMAIN layout.fields |->
        CASE layout.fields[j] = "Reward" -> p.reward
          [] layout.fields[j] = "Points" -> p.points
          [] layout.fields[j] = "Teacher" -> p.teacher
          [] OTHER -> field_sample(layout.fields[j])]

NoUploadedFile ==
    [present |-> FALSE, readable |-> FALSE, header |-> <<>>, rows |-> <<>>]

UnreadableFile ==
    [present |-> TRUE, readable |-> FALSE, header |-> <<>>, rows |-> <<>>]

UPLOADS ==
    {NoUploadedFile, UnreadableFile} \cup
    { [present |-> TRUE, readable |-> TRUE, header |-> l.header,
       rows |-> [i \in DOMAIN ps |-> file_row(l, ps[i])]] :
         l \in LAYOUTS,
         ps \in UNION {[1..n -> PAYLOADS] : n \in 0..MaxRows} }

staff_row(initials) == << <<"Ann">>, <<"Lee">>, initials, <<"Maths">> >>

STAFF_FILES ==
    { [exists |-> FALSE, readable |-> FALSE, header |-> <<>>, rows |-> <<>>],
      [exists |-> TRUE, readable |-> TRUE,
       header |-> <<"First Name", "Surname", "Initials", "Dept">>,
       rows |-> <<>>],
      [exists |-> TRUE, readable |-> TRUE,
       header |-> <<"First Name", "Surname", "Initials", "Dept">>,
       rows |-> <<staff_row(<<"ab">>)>>],
      [exists |-> TRUE, readable |-> TRUE,
       header |-> <<"First Name", "Surname", "Initials", "Dept">>,
       rows |-> <<staff_row(<<"AB">>), staff_row(<<>>), staff_row(<<"cd">>)>>],
      [exists |-> TRUE, readable |-> TRUE,
       header |-> <<"A", "B", "C", "D">>,
       rows |-> <<staff_row(<<"zz">>), staff_row(<<" ", "ZZ">>)>>] }

\* a tracker file left by earlier weeks
EarlierLog ==
    [exists |-> TRUE,
     rows |-> << [c \in Range(TRACKER_COLUMNS) |->
                     CASE c = "Teacher" -> <<"AB">>
                       [] c = HP -> <<"10">>
                       [] c = CP -> <<"0">>
                       [] c = "Week" -> <<"W1">>] >>]

---------------------------------------------------------------------------
(* The script, top to bottom (src/app.py 203-396).                         *)

NotRun == <<>>

Init ==
    /\ pc = "start"
    /\ staff_file \in STAFF_FILES
    /\ uploaded \in UPLOADS
    /\ weekly_target = DEFAULT_WEEKLY_TARGET
    /\ week_label = <<"W2">>
    /\ cumulative \in {NoFile, EarlierLog}
    /\ message = "none"
    /\ staff_df = NotRun
    /\ df_aligned = NotRun
    /\ rewards = NotRun
    /\ house_df = NotRun
    /\ conduct_df = NotRun
    /\ staff_agg = NotRun
    /\ staff_full = NotRun
    /\ to_append = NotRun
    /\ cum_df = NotRun
    /\ staff_stats = NotRun

\* src/app.py 233-237: nothing is uploaded, the script stops
AwaitUpload ==
    /\ pc = "start"
    /\ ~uploaded.present
    /\ pc' = "no_upload"
    /\ message' = "info"
    /\ staff_df' = load_staff_master(staff_file)
    /\ UNCHANGED <<staff_file, uploaded, weekly_target, week_label, cumulative,
                   df_aligned, rewards, house_df, conduct_df, staff_agg,
                   staff_full, to_append, cum_df, staff_stats>>

\* src/app.py 215-396: one run of the script on an uploaded file
RunScript ==
    /\ pc = "start"
    /\ uploaded.present
    /\ staff_df' = load_staff_master(staff_file)
    /\ IF read_fails(uploaded)
       THEN \* 242-244: st.error, st.stop
            /\ pc' = "read_error"
            /\ message' = "error"
            /\ UNCHANGED <<df_aligned, rewards, house_df, conduct_df, staff_agg,
                           staff_full, to_append, cum_df, staff_stats,
                           cumulative>>
       ELSE LET df == read_rewards_csv(uploaded)
                h == house_rows(df)
                c == conduct_rows(df)
                agg == staff_agg_of(staff_house_of(h), staff_conduct_of(c))
                master == master_of(load_staff_master(staff_file), agg)
                full == staff_full_of(master, agg, weekly_target)
            IN  /\ df_aligned' = align_columns(uploaded)
                /\ rewards' = df
                /\ house_df' = h
                /\ conduct_df' = c
                /\ staff_agg' = agg
                /\ IF ~full.ok
                   THEN \* 300 / 303 raised: the run ends in the exception
                        /\ pc' = "exception"
                        /\ message' = "KeyError"
                        /\ UNCHANGED <<staff_full, to_append, cum_df,
                                       staff_stats, cumulative>>
                   ELSE \* 315-396: summary, export, cumulative tracker
                        LET t == update_cumulative_tracker(
                                     weekly_frame(full.rows, week_label),
                                     cumulative, weekly_target)
                        IN  /\ pc' = "done"
                            /\ message' = "none"
                            /\ staff_full' = full.rows
                            /\ cumulative' = t.file
                            /\ to_append' = t.to_append
                            /\ cum_df' = t.cum
                            /\ staff_stats' = t.staff_stats
    /\ UNCHANGED <<staff_file, uploaded, weekly_target, week_label>>

Next == AwaitUpload \/ RunScript

Spec == Init /\ [][Next]_vars

---------------------------------------------------------------------------
(* update_cumulative_tracker on its own: week after week it is handed a     *)
(* weekly frame (one row per teacher) and the week label of the sidebar.   *)

TRACKER_TEACHERS == { <<"AB">>, <<"NA">> }

WEEK_LABELS == { <<"W1">>, <<"01">> }

WEEKLY_TARGETS == { 10, DEFAULT_WEEKLY_TARGET }

weekly_row(t, house, conduct) ==
    [c \in {"Teacher", HP, CP} |->
        CASE c = "Teacher" -> t [] c = HP -> house [] c = CP -> conduct]

WEEKLY_ROWS ==
    { weekly_row(t, p[1], p[2]) :
        t \in TRACKER_TEACHERS, p \in {<<0, 1>>, <<10, 0>>, <<20, 0>>} }

\* the frames of at most MaxStaff rows, one row per teacher
WEEKLY_FRAMES ==
    { f \in UNION {[1..n -> WEEKLY_ROWS] : n \in 0..MaxStaff} :
        \A i, j \in DOMAIN f : i # j => f[i]["Teacher"] # f[j]["Teacher"] }

TrackerInit ==
    /\ pc = "tracker"
    /\ staff_file = [exists |-> FALSE, readable |-> FALSE,
                     header |-> <<>>, rows |-> <<>>]
    /\ uploaded = NoUploadedFile
    /\ weekly_target \in WEEKLY_TARGETS
    /\ week_label = <<"W1">>
    /\ cumulative = NoFile
    /\ message = "none"
    /\ staff_df = NotRun
    /\ df_aligned = NotRun
    /\ rewards = NotRun
    /\ house_df = NotRun
    /\ conduct_df = NotRun
    /\ staff_agg = NotRun
    /\ staff_full = NotRun
    /\ to_append = NotRun
    /\ cum_df = NotRun
    /\ staff_stats = NotRun

UpdateCumulativeTracker ==
    /\ pc = "tracker"
    /\ \E label \in WEEK_LABELS, frame \in WEEKLY_FRAMES :
          /\ Len(cumulative.rows) + Len(frame) <= MaxLog
          /\ LET t == update_cumulative_tracker(
                          weekly_frame(frame, label), cumulative, weekly_target)
             IN  /\ week_label' = label
                 /\ cumulative' = t.file
                 /\ to_append' = t.to_append
                 /\ cum_df' = t.cum
                 /\ staff_stats' = t.staff_stats
    /\ UNCHANGED <<pc, staff_file, uploaded, weekly_target, message, staff_df,
                   df_aligned, rewards, house_df, conduct_df, staff_agg,
                   staff_full>>

TrackerNext == UpdateCumulativeTracker

SpecTracker == TrackerInit /\ [][TrackerNext]_vars

---------------------------------------------------------------------------
(* read_rewards_csv on its own (the call of src/app.py 241): exports with   *)
(* the documented headers whose House cells vary.                          *)

\* what an export can hold in a House cell
HOUSE_TEXTS ==
    { <<"b">>, <<"B">>, <<"L">>, <<"d">>, <<"w">>,
      <<"Brunel">>, <<"Drake">>, <<"7l">>, <<"Red">>, <<" ", "x">>,
      <<"2">>, <<"NA">>, <<>> }

house_file_row(house) ==
    [j \in DOMAIN EXPECTED_REWARDS_COLS |->
        CASE EXPECTED_REWARDS_COLS[j] = "House" -> house
          [] EXPECTED_REWARDS_COLS[j] = "Reward" -> <<"House", "Point">>
          [] EXPECTED_REWARDS_COLS[j] = "Points" -> <<"5">>
          [] EXPECTED_REWARDS_COLS[j] = "Teacher" -> <<"ab">>
          [] OTHER -> field_sample(EXPECTED_REWARDS_COLS[j])]

HOUSE_UPLOADS ==
    { [present |-> TRUE, readable |-> TRUE, header |-> EXPECTED_REWARDS_COLS,
       rows |-> [i \in DOMAIN hs |-> house_file_row(hs[i])]] :
         hs \in UNION {[1..n -> HOUSE_TEXTS] : n \in 1..MaxRows} }

NormalizerInit ==
    /\ pc = "read"
    /\ staff_file = [exists |-> FALSE, readable |-> FALSE,
                     header |-> <<>>, rows |-> <<>>]
    /\ uploaded \in HOUSE_UPLOADS
    /\ weekly_target = DEFAULT_WEEKLY_TARGET
    /\ week_label = <<"W1">>
    /\ cumulative = NoFile
    /\ message = "none"
    /\ staff_df = NotRun
    /\ df_aligned = NotRun
    /\ rewards = NotRun
    /\ house_df = NotRun
    /\ conduct_df = NotRun
    /\ staff_agg = NotRun
    /\ staff_full = NotRun
    /\ to_append = NotRun
    /\ cum_df = NotRun
    /\ staff_stats = NotRun

\* src/app.py 241: rewards = read_rewards_csv(uploaded)
ReadRewardsCsv ==
    /\ pc = "read"
    /\ ~read_fails(uploaded)
    /\ df_aligned' = align_columns(uploaded)
    /\ rewards' = read_rewards_csv(uploaded)
    /\ pc' = "normalised"
    /\ UNCHANGED <<staff_file, uploaded, weekly_target, week_label,
                   cumulative, message, staff_df, house_df, conduct_df,
                   staff_agg, staff_full, to_append, cum_df, staff_stats>>

NormalizerNext == ReadRewardsCsv

SpecNormalizer == NormalizerInit /\ [][NormalizerNext]_vars

---------------------------------------------------------------------------
(* Properties.                                                             *)

\* the run went past the read of the upload
RanPastRead == pc \in {"exception", "done"}

in_frame(frame, row) == \E k \in DOMAIN frame : frame[k]["index"] = row["index"]

\* C1: after a run on a readable upload every identifier of the staff
\* master has exactly one row in staff_full, and that row has 0 house points
\* when no house or conduct row names the identifier.
C1_EveryRosterIdOnce ==
    RanPastRead =>
        \A i \in DOMAIN staff_df :
            LET id == staff_df[i]["Initials"]
                at == {k \in DOMAIN staff_full : staff_full[k]["Teacher"] = id}
            IN  /\ Cardinality(at) = 1
                /\ id \notin (teachers_of(house_df) \cup teachers_of(conduct_df))
                      => \A k \in at : staff_full[k][HP] = 0

\* C2: after a run on a readable upload the house points of staff_full add
\* up to the Points of house_df.
C2_HousePointsPreserved ==
    RanPastRead => sum_column(staff_full, HP) = sum_column(house_df, "Points")

\* C3, as amended: a row is in house_df exactly when its Reward text contains
\* "house", and in conduct_df exactly when it contains "conduct"; the two
\* are independent, and each subset holds the rows of the weekly frame
\* unchanged and in order.
C3_SplitOnHouseAndConduct ==
    RanPastRead =>
        /\ \A i \in DOMAIN rewards :
              /\ in_frame(house_df, rewards[i])
                    <=> str_contains(rewards[i]["Reward"], "house")
              /\ in_frame(conduct_df, rewards[i])
                    <=> str_contains(rewards[i]["Reward"], "conduct")
        /\ \A k \in DOMAIN house_df :
              /\ house_df[k] = rewards[house_df[k]["index"] + 1]
              /\ \A j \in 1..(k - 1) : house_df[j]["index"] < house_df[k]["index"]
        /\ \A k \in DOMAIN conduct_df :
              /\ conduct_df[k] = rewards[conduct_df[k]["index"] + 1]
              /\ \A j \in 1..(k - 1) :
                    conduct_df[j]["index"] < conduct_df[k]["index"]

\* C3, as stated: house on "house" or "reward", conduct on "conduct",
\* "behaviour" or "behavior".
C3_SplitOnFiveWords ==
    RanPastRead =>
        \A i \in DOMAIN rewards :
            /\ in_frame(house_df, rewards[i])
                  <=> \E w \in {"house", "reward"} :
                          str_contains(rewards[i]["Reward"], w)
            /\ in_frame(conduct_df, rewards[i])
                  <=> \E w \in {"conduct", "behaviour", "behavior"} :
                          str_contains(rewards[i]["Reward"], w)

\* C3: a row naming both words sits in both subsets, beside a row whose
\* Reward says "reward" and sits in neither.
C3_RowInBothSubsets ==
    /\ pc = "exception"
    /\ \E i, j \in DOMAIN rewards :
          /\ rewards[i]["Reward"] = <<"house", "conduct">>
          /\ in_frame(house_df, rewards[i])
          /\ in_frame(conduct_df, rewards[i])
          /\ rewards[j]["Reward"] = <<"reward">>
          /\ ~in_frame(house_df, rewards[j])

PRIMARY_WORDS == {"house", "reward", "conduct", "behaviour", "behavior"}

matches_primary_rule(row) ==
    \E w \in PRIMARY_WORDS :
        str_contains(row["Reward"], w) \/ str_contains(row["Category"], w)

\* C4, as stated: when no row of the file matches the primary rule the split
\* is by the sign of Points, every row in exactly one subset; when some row
\* matches, the rows that do not are in neither subset.
C4_SignFallback ==
    RanPastRead =>
        IF \A i \in DOMAIN rewards : ~matches_primary_rule(rewards[i])
        THEN \A i \in DOMAIN rewards :
                /\ in_frame(house_df, rewards[i]) <=> rewards[i]["Points"] > 0
                /\ in_frame(conduct_df, rewards[i]) <=> rewards[i]["Points"] < 0
                /\ in_frame(house_df, rewards[i]) # in_frame(conduct_df, rewards[i])
        ELSE \A i \in DOMAIN rewards :
                ~matches_primary_rule(rewards[i])
                    => /\ ~in_frame(house_df, rewards[i])
                       /\ ~in_frame(conduct_df, rewards[i])

names_neither_word(row) ==
    ~str_contains(row["Reward"], "house") /\ ~str_contains(row["Reward"], "conduct")

\* C4, as amended: there is no fall-back.  When no row of the file names
\* "house" or "conduct" in its Reward text both subsets are empty, whatever
\* the signs of Points; and a row that names neither word is in neither
\* subset, whether or not other rows of the file match.
C4_NoSignFallback ==
    RanPastRead =>
        /\ (\A i \in DOMAIN rewards : names_neither_word(rewards[i]))
              => house_df = <<>> /\ conduct_df = <<>>
        /\ \A i \in DOMAIN rewards :
              names_neither_word(rewards[i])
                  => /\ ~in_frame(house_df, rewards[i])
                     /\ ~in_frame(conduct_df, rewards[i])

\* C4: a file of two rows, one with positive and one with negative Points,
\* neither matching any of the five words: both subsets are empty
C4_UnmatchedFileLeftUnsplit ==
    /\ pc = "exception"
    /\ Len(rewards) = 2
    /\ \A i \in DOMAIN rewards : ~matches_primary_rule(rewards[i])
    /\ rewards[1]["Points"] > 0
    /\ rewards[2]["Points"] < 0
    /\ house_df = <<>>
    /\ conduct_df = <<>>

\* C5: every tracker update leaves the file holding its previous rows,
\* unchanged and in order, followed by the rows of this call.
C5_LogIsAppendOnly ==
    [][cumulative'.rows = cumulative.rows \o to_csv(to_append').rows]_vars

\* the rows of the tracker file that name teacher t
log_rows_of(t) ==
    select_rows(cumulative.rows,
                [i \in DOMAIN cumulative.rows |-> cumulative.rows[i]["Teacher"] = t])

\* C6: for every teacher named in the tracker file the statistics hold the
\* sum of the teacher's house points, the number of distinct week labels of
\* the teacher's rows, and the sum divided by that number (to 2 places).
C6_StatsPerPeriod ==
    \A t \in {cumulative.rows[i]["Teacher"] : i \in DOMAIN cumulative.rows} \ {<<>>} :
        LET mine == log_rows_of(t)
            total == sum_column([i \in DOMAIN mine |->
                                    [c \in {HP} |-> numeric_value(mine[i][HP])]], HP)
            periods == Cardinality({mine[i]["Week"] : i \in DOMAIN mine})
        IN  \E k \in DOMAIN staff_stats :
                /\ staff_stats[k].Teacher = t
                /\ staff_stats[k].TotalHousePoints = total
                /\ staff_stats[k].WeeksReported = periods
                /\ staff_stats[k].AvgHousePerWeek = round2(total, periods)

\* C7: ContributionStatus is Positive exactly when the average reaches the
\* weekly target of the sidebar.
C7_StatusAgainstWeeklyTarget ==
    \A k \in DOMAIN staff_stats :
        staff_stats[k].ContributionStatus = "Positive"
            <=> staff_stats[k].AvgHousePerWeek >= 100 * weekly_target

\* C8: a run on a readable upload reaches the cumulative tracker step,
\* whatever the staff master.
C8_ReadableRunCompletes ==
    (pc # "start" /\ uploaded.present /\ uploaded.readable) => pc = "done"

\* C9: on an unreadable upload the run reports the error and stops: no
\* frame, no summary, no tracker call, the tracker file as it was.
C9_UnreadableUploadStops ==
    [][(pc = "start" /\ uploaded.present /\ ~uploaded.readable)
          => /\ pc' = "read_error"
             /\ message' = "error"
             /\ cumulative' = cumulative
             /\ rewards' = NotRun /\ house_df' = NotRun /\ conduct_df' = NotRun
             /\ staff_agg' = NotRun /\ staff_full' = NotRun
             /\ to_append' = NotRun /\ staff_stats' = NotRun]_vars

\* C9: the run stopped on the read error with a tracker file on disk
C9_StoppedOnReadError ==
    /\ pc = "read_error"
    /\ message = "error"
    /\ uploaded.present /\ ~uploaded.readable
    /\ cumulative = EarlierLog

\* the cell of row i, column j of the upload as pd.read_csv returns it
read_cell(i, j) ==
    IF is_na(uploaded.rows[i][j]) THEN <<>> ELSE uploaded.rows[i][j]

stripped_header == [j \in DOMAIN uploaded.header |-> strip_name(uploaded.header[j])]

cell_by_name(i, c) ==
    IF c \in Range(stripped_header)
    THEN read_cell(i, first_index(stripped_header, c))
    ELSE <<>>

cell_by_position(i, c) == read_cell(i, first_index(EXPECTED_REWARDS_COLS, c))

\* C10, as amended: with every expected name present the columns are taken
\* by name; otherwise, with at least as many columns as expected, the first
\* of them are renamed by position; otherwise (fewer columns) the columns
\* are taken by name and the expected names that are missing are empty.
C10_HeaderStrategy ==
    RanPastRead =>
        /\ Len(df_aligned) = Len(uploaded.rows)
        /\ \A i \in DOMAIN df_aligned : \A c \in ExpectedSet :
              df_aligned[i][c] =
                  IF ExpectedSet \subseteq Range(stripped_header)
                  THEN cell_by_name(i, c)
                  ELSE IF Len(stripped_header) >= Len(EXPECTED_REWARDS_COLS)
                  THEN cell_by_position(i, c)
                  ELSE cell_by_name(i, c)

\* C10, as stated: renamed by position only on an exact column count.
C10_PositionalOnExactCount ==
    RanPastRead =>
        \A i \in DOMAIN df_aligned : \A c \in ExpectedSet :
            df_aligned[i][c] =
                IF ExpectedSet \subseteq Range(stripped_header)
                THEN cell_by_name(i, c)
                ELSE IF Len(stripped_header) = Len(EXPECTED_REWARDS_COLS)
                THEN cell_by_position(i, c)
                ELSE cell_by_name(i, c)

\* C10: thirteen columns without "Dep": the fifth column became Reward
C10_LongerFileRenamedByPosition ==
    /\ pc = "exception"
    /\ Len(uploaded.header) > Len(EXPECTED_REWARDS_COLS)
    /\ ~(ExpectedSet \subseteq Range(stripped_header))
    /\ Len(df_aligned) >= 1
    /\ df_aligned[1]["Reward"] = uploaded.rows[1][5]
    /\ df_aligned[1]["Reward"] # cell_by_name(1, "Reward")

\* the House cell of row i of the uploaded file, surrounding white space
\* apart
house_value(i) ==
    str_strip(uploaded.rows[i][first_index(uploaded.header, "House")])

\* the value is one of the codes B, L, D, W, in either case
is_lookup_code(text) ==
    Len(text) = 1 /\ upper_token(text[1]) \in DOMAIN HOUSE_MAPPING

\* C11: after normalisation a House value that is one of the lookup codes
\* (B, L, D, W, in either case) is the full house name, and every other
\* House value is the value of the file: it is not replaced by a house name
\* and a value that was not empty is not empty.
C11_UnmappedHousePassesThrough ==
    pc = "normalised" =>
        \A i \in DOMAIN rewards :
            IF is_lookup_code(house_value(i))
            THEN rewards[i]["House"]
                     = HOUSE_MAPPING[upper_token(house_value(i)[1])]
            ELSE /\ rewards[i]["House"] = house_value(i)
                 /\ house_value(i) # <<>> => rewards[i]["House"] # <<>>

====
